---- MODULE Spec2Model ----
(***************************************************************************)
(* Course catalog service (src/app.py): the file-backed Catalog Store      *)
(* (load_courses / save_courses / the inline rewrite of delete_course),    *)
(* the two counter registries (requests_count, error_count), the spans the *)
(* handlers open with tracer.start_as_current_span, and the JSON log       *)
(* written through logger.                                                 *)
(*                                                                         *)
(* Every handler is a table of instructions keyed by the source line that  *)
(* holds the statement ("L73" is line 73; "L64r"/"L64w" are the read and   *)
(* the write of the `+= 1` of line 64; "L66x" is the exit of the `with`    *)
(* block opened on line 66).  One action interprets each kind of           *)
(* instruction.  Request threads interleave between instructions.          *)
(*                                                                         *)
(* Strings are sequences of one-character strings so that str.strip() is   *)
(* computed.  time.time() values are not modelled: only the presence of    *)
(* the processing_time attribute is.  flash() and template rendering are   *)
(* outside the model; a handler's return value is kept as a string.  The  *)
(* spans FlaskInstrumentor adds around every request are library state    *)
(* and are not modelled: `span` is the span the handler itself opens.     *)
(***************************************************************************)
EXTENDS Integers, Sequences, FiniteSets, TLC

\* ------------------------------------------------------------------ bounds
\* requests served in one behaviour of SeqSpec (one request at a time)
MaxSeqRequests == 3
\* longest collection found in course_catalog.json at start-up
MaxInit == 2

\* the request threads of the server; in Spec each serves one request, so
\* that two requests are in flight in every interleaving of their steps
Threads == {1, 2}

\* ------------------------------------------------------------------ data
SP == " "
None == << >>
Some(x) == <<x>>

Fields ==
  {"code", "name", "instructor", "semester", "schedule", "classroom",
   "prerequisites", "grading", "description"}

\* str.strip(): leading, then trailing whitespace removed
RECURSIVE LStrip(_)
LStrip(s) == IF s # << >> /\ Head(s) = SP THEN LStrip(Tail(s)) ELSE s

RECURSIVE RStrip(_)
RStrip(s) ==
  IF s # << >> /\ s[Len(s)] = SP THEN RStrip(SubSeq(s, 1, Len(s) - 1)) ELSE s

Strip(s) == RStrip(LStrip(s))

\* request.form.get(k, ''): the submitted value, '' when the field is absent
FormGet(form, k) == IF k \in DOMAIN form THEN form[k] ELSE << >>

\* the course dict built from the form, every field stripped
CourseOfForm(form) == [k \in Fields |-> Strip(FormGet(form, k))]

\* if not course['code'] or not course['name'] or not course['instructor']
MissingRequired_NoInstructor(c) == c["code"] = << >> \/ c["name"] = << >>

MissingRequired(c) ==
  c["code"] = << >> \/ c["name"] = << >> \/ c["instructor"] = << >>

\* courses.append(data)
ListAppend_Prepend(cs, data) == <<data>> \o cs

ListAppend(cs, data) == Append(cs, data)

\* [course for course in courses if course['code'] != code]
RECURSIVE FilterOut_FirstOnly(_, _)
FilterOut_FirstOnly(cs, code) ==
  IF cs = << >> THEN << >>
  ELSE IF Head(cs)["code"] # code
       THEN <<Head(cs)>> \o FilterOut_FirstOnly(Tail(cs), code)
       ELSE Tail(cs)

RECURSIVE FilterOut(_, _)
FilterOut(cs, code) ==
  IF cs = << >> THEN << >>
  ELSE IF Head(cs)["code"] # code
       THEN <<Head(cs)>> \o FilterOut(Tail(cs), code)
       ELSE FilterOut(Tail(cs), code)

\* next((course for course in courses if course['code'] == code), None)
RECURSIVE FirstMatch_Last(_, _)
FirstMatch_Last(cs, code) ==
  IF cs = << >> THEN None
  ELSE IF cs[Len(cs)]["code"] = code
       THEN Some(cs[Len(cs)])
       ELSE FirstMatch_Last(SubSeq(cs, 1, Len(cs) - 1), code)

RECURSIVE FirstMatch(_, _)
FirstMatch(cs, code) ==
  IF cs = << >> THEN None
  ELSE IF Head(cs)["code"] = code
       THEN Some(Head(cs))
       ELSE FirstMatch(Tail(cs), code)

\* ------------------------------------------------------------------ inputs
Blank == [k \in Fields |-> << >>]
Rec(code, name, instr) ==
  [Blank EXCEPT !["code"] = code, !["name"] = name, !["instructor"] = instr]

\* records that may already be in course_catalog.json
InitRecords ==
  {Rec(<<"A">>, <<"x">>, <<"i">>),
   Rec(<<"B">>, <<"n">>, <<"i">>)}

\* forms a client may post to /add_course: two complete ones with the same
\* code, then one with no name field, one with a blank instructor and one
\* with a blank code
Forms ==
  {[code |-> <<SP, "A">>, name |-> <<"n">>, instructor |-> <<"i">>],
   [code |-> <<"A">>, name |-> <<"m", SP>>, instructor |-> <<"i">>,
    semester |-> <<SP, "s">>],
   [code |-> <<"A">>, instructor |-> <<"i">>],
   [code |-> <<"A">>, name |-> <<"n">>, instructor |-> <<SP>>],
   [code |-> <<SP, SP>>, name |-> <<"n">>, instructor |-> <<"i">>]}

\* <code> segments of /delete_course/<code> and /course/<code>
Codes == {<<"A">>, <<"B">>}

NoForm == << >>
Req(route, method, form, code) ==
  [route |-> route, method |-> method, form |-> form, code |-> code]

Requests ==
  {Req("/catalog", "GET", NoForm, << >>),
   Req("/add_course", "GET", NoForm, << >>),
   Req("/manual-trace", "GET", NoForm, << >>)}
  \cup {Req("/add_course", "POST", f, << >>) : f \in Forms}
  \cup {Req("/delete_course", "POST", NoForm, c) : c \in Codes}
  \cup {Req("/course", "GET", NoForm, c) : c \in Codes}

NoRequest == Req("", "", NoForm, << >>)

SeqsUpTo(S, n) == UNION {[1..k -> S] : k \in 0..n}

\* course_catalog.json: absent, a JSON array, or bytes json.load rejects
\* (the zero bytes open(COURSE_FILE, 'w') leaves until json.dump has run)
Absent == [st |-> "absent", courses |-> << >>]
Unparseable == [st |-> "unparseable", courses |-> << >>]
Json(cs) == [st |-> "json", courses |-> cs]

InitFiles == {Absent, Unparseable} \cup {Json(cs) : cs \in SeqsUpTo(InitRecords, MaxInit)}

\* ------------------------------------------------------------------ program
\* Instruction constructors.  `next` is the label control reaches afterwards.
CtrRead(reg, key, next) == [op |-> "ctr_read", reg |-> reg, key |-> key, next |-> next]
CtrWrite(reg, key, next) == [op |-> "ctr_write", reg |-> reg, key |-> key, next |-> next]
SpanStart(name, kind, next) == [op |-> "span_start", name |-> name, kind |-> kind, next |-> next]
SpanSet(attrs, events, next) == [op |-> "span_set", attrs |-> attrs, events |-> events, next |-> next]
SpanExit(next) == [op |-> "span_exit", next |-> next]
Load(next, onRaise) == [op |-> "load", next |-> next, onRaise |-> onRaise]
ListAppendI(next) == [op |-> "append", next |-> next]
Filter(next) == [op |-> "filter", next |-> next]
Find(next) == [op |-> "find", next |-> next]
OpenW(next) == [op |-> "open_w", next |-> next]
Dump(src, next) == [op |-> "dump", src |-> src, next |-> next]
IfPost(then, else) == [op |-> "if_post", next |-> then, else |-> else]
ParseForm(next) == [op |-> "parse_form", next |-> next]
IfMissing(then, else) == [op |-> "if_missing", next |-> then, else |-> else]
IfNotFound(then, else) == [op |-> "if_not_found", next |-> then, else |-> else]
LogI(level, event, next) == [op |-> "log", level |-> level, event |-> event, next |-> next]
Return(value, next) == [op |-> "return", value |-> value, next |-> next]

HttpAttrs == {"http.method", "http.url", "user.ip"}

\* def course_catalog(), with the log record written before the load
course_catalog_LogFirst ==
     "L64r" :> CtrRead("requests", "catalog", "L64w")
  @@ "L64w" :> CtrWrite("requests", "catalog", "L66")
  @@ "L66"  :> SpanStart("render-course-catalog", "INTERNAL", "L67")
  @@ "L67"  :> SpanSet(HttpAttrs \cup {"requests.count"}, <<"Loading course catalog">>, "L77")
  @@ "L77"  :> LogI("INFO", "Page Rendered", "L73")
  @@ "L73"  :> Load("L74", "L66x")
  @@ "L74"  :> SpanSet({"total_courses", "processing_time"}, << >>, "L84")
  @@ "L84"  :> Return("render course_catalog.html", "L66x")
  @@ "L66x" :> SpanExit("done")

\* def course_catalog()
course_catalog ==
     "L64r" :> CtrRead("requests", "catalog", "L64w")
  @@ "L64w" :> CtrWrite("requests", "catalog", "L66")
  @@ "L66"  :> SpanStart("render-course-catalog", "INTERNAL", "L67")
  @@ "L67"  :> SpanSet(HttpAttrs \cup {"requests.count"}, <<"Loading course catalog">>, "L73")
  @@ "L73"  :> Load("L74", "L66x")
  @@ "L74"  :> SpanSet({"total_courses", "processing_time"}, << >>, "L77")
  @@ "L77"  :> LogI("INFO", "Page Rendered", "L84")
  @@ "L84"  :> Return("render course_catalog.html", "L66x")
  @@ "L66x" :> SpanExit("done")

\* def save_courses(data) without line 49: the loaded list is written back
save_courses_NoAppend ==
     "L48"  :> Load("L50", "L93x")
  @@ "L49"  :> ListAppendI("L50")
  @@ "L50"  :> OpenW("L51")
  @@ "L51"  :> Dump("courses", "L127")

\* def save_courses(data), called from line 126 inside the span of line 93
save_courses ==
     "L48"  :> Load("L49", "L93x")
  @@ "L49"  :> ListAppendI("L50")
  @@ "L50"  :> OpenW("L51")
  @@ "L51"  :> Dump("courses", "L127")

\* def add_course()
add_course ==
     "L92r" :> CtrRead("requests", "add_course", "L92w")
  @@ "L92w" :> CtrWrite("requests", "add_course", "L93")
  @@ "L93"  :> SpanStart("add-course", "INTERNAL", "L94")
  @@ "L94"  :> SpanSet(HttpAttrs \cup {"requests.count"}, << >>, "L99")
  @@ "L99"  :> IfPost("L100", "L137")
  @@ "L100" :> ParseForm("L112")
  @@ "L112" :> IfMissing("L113r", "L48")
  @@ "L113r" :> CtrRead("errors", "add_course", "L113w")
  @@ "L113w" :> CtrWrite("errors", "add_course", "L114")
  @@ "L114" :> SpanSet({"error_count"}, <<"Validation failed: Missing required fields">>, "L117")
  @@ "L117" :> LogI("WARNING", "Form Validation Error", "L124")
  @@ "L124" :> Return("render add_course.html", "L93x")
  @@ "L127" :> SpanSet({"processing_time"}, <<"Course saved successfully">>, "L129")
  @@ "L129" :> LogI("INFO", "Course Added", "L135")
  @@ "L135" :> Return("redirect course_catalog", "L93x")
  @@ "L137" :> Return("render add_course.html", "L93x")
  @@ "L93x" :> SpanExit("done")

\* def delete_course(code): no span, no counter, no log record
delete_course ==
     "L144" :> Load("L145", "done")
  @@ "L145" :> Filter("L147")
  @@ "L147" :> OpenW("L148")
  @@ "L148" :> Dump("updated_courses", "L151")
  @@ "L151" :> Return("redirect course_catalog", "done")

\* def course_details(code)
course_details ==
     "L158" :> SpanStart("view-course-details", "INTERNAL", "L159")
  @@ "L159" :> SpanSet(HttpAttrs \cup {"course_code"}, << >>, "L164")
  @@ "L164" :> Load("L165", "L158x")
  @@ "L165" :> Find("L167")
  @@ "L167" :> IfNotFound("L168r", "L181")
  @@ "L168r" :> CtrRead("errors", "course_details", "L168w")
  @@ "L168w" :> CtrWrite("errors", "course_details", "L169")
  @@ "L169" :> SpanSet({"error_count"}, <<"Course not found">>, "L172")
  @@ "L172" :> LogI("ERROR", "Course Not Found", "L179")
  @@ "L179" :> Return("redirect course_catalog", "L158x")
  @@ "L181" :> SpanSet({"processing_time"}, <<"Course details rendered successfully">>, "L184")
  @@ "L184" :> LogI("INFO", "Course Details Rendered", "L190")
  @@ "L190" :> Return("render course_details.html", "L158x")
  @@ "L158x" :> SpanExit("done")

\* def manual_trace()
manual_trace ==
     "L197" :> SpanStart("manual-span", "SERVER", "L198")
  @@ "L198" :> SpanSet({"http.method", "http.url"}, <<"Processing request">>, "L201")
  @@ "L201" :> Return("Manual trace recorded!", "L197x")
  @@ "L197x" :> SpanExit("done")

Code ==
  course_catalog @@ add_course @@ save_courses @@ delete_course
  @@ course_details @@ manual_trace

\* @app.route(...): the first instruction of the handler bound to a route
Entry(route) ==
  CASE route = "/catalog" -> "L64r"
    [] route = "/add_course" -> "L92r"
    [] route = "/delete_course" -> "L144"
    [] route = "/course" -> "L158"
    [] route = "/manual-trace" -> "L197"

\* the load_courses() calls that are themselves the handler's store call
\* (line 48 is the load inside save_courses, which returns at line 51)
StoreCallReturns == {"L73", "L144", "L164", "L51"}

\* ------------------------------------------------------------------ state
VARIABLES
  file,             \* course_catalog.json
  requests_count,   \* defaultdict(int), line 12
  error_count,      \* defaultdict(int), line 17
  log,              \* app.log: the records written through logger, in order
  pc,               \* per thread: "idle", a label of Code, or "done"
  request,          \* per thread: the request being handled
  span,             \* per thread: the span of the handler's `with` block
  courses,          \* per thread: local `courses`
  updated_courses,  \* per thread: local `updated_courses` of delete_course
  course,           \* per thread: local `course` (None or one dict)
  tmp,              \* per thread: the value read by the `+= 1` in progress
  exc,              \* per thread: an exception is propagating
  result,           \* per thread: what the handler returned or raised
  served,           \* requests dispatched so far
  \* history of the run, read by the properties only
  pre,              \* per thread: file, error_count and log length at dispatch
  snap,             \* per thread: what its last load_courses() returned
  emitted,          \* per thread: log records written by this request
  store,            \* per thread: progress of the handler's store call
  base,             \* collection at start-up or after the last delete
  appended,         \* records whose save_courses() has returned since `base`
  increments        \* completed `+= 1` statements per registry and key

shared == <<file, requests_count, error_count, log>>
locals == <<request, span, courses, updated_courses, course, tmp, exc, result>>
history == <<pre, snap, emitted, store, base, appended, increments>>
vars == <<shared, pc, locals, served, history>>

CounterKeys == {"catalog", "add_course", "course_details"}
Registries == {"requests", "errors"}

NoSpan == [state |-> "none", name |-> "", kind |-> "", attrs |-> {}, events |-> << >>]
NoPre == [file |-> Absent, errors |-> [k \in CounterKeys |-> 0], loglen |-> 0]

Init ==
  /\ file \in InitFiles
  /\ requests_count = [k \in CounterKeys |-> 0]
  /\ error_count = [k \in CounterKeys |-> 0]
  /\ log = << >>
  /\ pc = [p \in Threads |-> "idle"]
  /\ request = [p \in Threads |-> NoRequest]
  /\ span = [p \in Threads |-> NoSpan]
  /\ courses = [p \in Threads |-> << >>]
  /\ updated_courses = [p \in Threads |-> << >>]
  /\ course = [p \in Threads |-> None]
  /\ tmp = [p \in Threads |-> 0]
  /\ exc = [p \in Threads |-> FALSE]
  /\ result = [p \in Threads |-> ""]
  /\ served = 0
  /\ pre = [p \in Threads |-> NoPre]
  /\ snap = [p \in Threads |-> << >>]
  /\ emitted = [p \in Threads |-> 0]
  /\ store = [p \in Threads |-> "notcalled"]
  /\ base = file.courses
  /\ appended = << >>
  /\ increments = [r \in Registries |-> [k \in CounterKeys |-> 0]]

At(p, op) == pc[p] \in DOMAIN Code /\ Code[pc[p]].op = op
I(p) == Code[pc[p]]
Goto(p, l) == pc' = [pc EXCEPT ![p] = l]

\* ------------------------------------------------------------------ actions
\* Flask hands request r to the handler its route is bound to
Dispatch(p, r) ==
  /\ pc[p] = "idle"
  /\ Goto(p, Entry(r.route))
  /\ request' = [request EXCEPT ![p] = r]
  /\ served' = served + 1
  /\ pre' = [pre EXCEPT ![p] = [file |-> file, errors |-> error_count, loglen |-> Len(log)]]
  /\ UNCHANGED <<shared, span, courses, updated_courses, course, tmp, exc, result>>
  /\ UNCHANGED <<snap, emitted, store, base, appended, increments>>

\* counter[key] += 1, first half: the current value is read
counter_read(p) ==
  /\ At(p, "ctr_read")
  /\ tmp' = [tmp EXCEPT ![p] =
               IF I(p).reg = "requests" THEN requests_count[I(p).key]
               ELSE error_count[I(p).key]]
  /\ Goto(p, I(p).next)
  /\ UNCHANGED <<shared, request, span, courses, updated_courses, course, exc, result>>
  /\ UNCHANGED <<served, history>>

\* counter[key] += 1, second half: the value read, plus one, is stored
counter_write(p) ==
  /\ At(p, "ctr_write")
  /\ IF I(p).reg = "requests"
     THEN /\ requests_count' = [requests_count EXCEPT ![I(p).key] = tmp[p] + 1]
          /\ UNCHANGED error_count
     ELSE /\ error_count' = [error_count EXCEPT ![I(p).key] = tmp[p] + 1]
          /\ UNCHANGED requests_count
  /\ increments' = [increments EXCEPT ![I(p).reg][I(p).key] = @ + 1]
  /\ Goto(p, I(p).next)
  /\ UNCHANGED <<file, log, locals, served>>
  /\ UNCHANGED <<pre, snap, emitted, store, base, appended>>

\* with tracer.start_as_current_span(name) as span:
start_as_current_span(p) ==
  /\ At(p, "span_start")
  /\ span' = [span EXCEPT ![p] =
                [state |-> "open", name |-> I(p).name, kind |-> I(p).kind,
                 attrs |-> {}, events |-> << >>]]
  /\ Goto(p, I(p).next)
  /\ UNCHANGED <<shared, request, courses, updated_courses, course, tmp, exc, result>>
  /\ UNCHANGED <<served, history>>

\* a run of span.set_attribute(...) / span.add_event(...) calls
span_set(p) ==
  /\ At(p, "span_set")
  /\ span' = [span EXCEPT ![p].attrs = @ \cup I(p).attrs,
                          ![p].events = @ \o I(p).events]
  /\ Goto(p, I(p).next)
  /\ UNCHANGED <<shared, request, courses, updated_courses, course, tmp, exc, result>>
  /\ UNCHANGED <<served, history>>

\* the end of the `with` block: the span ends on every way out; when an
\* exception is leaving the block the context manager records it first
span_exit(p) ==
  /\ At(p, "span_exit")
  /\ span' = [span EXCEPT ![p].state = "closed",
                          ![p].events = IF exc[p] THEN Append(@, "exception") ELSE @]
  /\ Goto(p, I(p).next)
  /\ UNCHANGED <<shared, request, courses, updated_courses, course, tmp, exc, result>>
  /\ UNCHANGED <<served, history>>

\* load_courses(): [] when the file is absent, else json.load, which raises
\* on bytes that are not JSON
load_courses(p) ==
  /\ At(p, "load")
  /\ IF file.st = "unparseable"
     THEN /\ exc' = [exc EXCEPT ![p] = TRUE]
          /\ result' = [result EXCEPT ![p] = "raise JSONDecodeError"]
          /\ store' = [store EXCEPT ![p] = "raised"]
          /\ Goto(p, I(p).onRaise)
          /\ UNCHANGED <<courses, snap>>
     ELSE /\ courses' = [courses EXCEPT ![p] = IF file.st = "absent" THEN << >> ELSE file.courses]
          /\ snap' = [snap EXCEPT ![p] = courses'[p]]
          /\ store' = [store EXCEPT ![p] =
                         IF pc[p] \in StoreCallReturns THEN "returned" ELSE "incall"]
          /\ Goto(p, I(p).next)
          /\ UNCHANGED <<exc, result>>
  /\ UNCHANGED <<shared, request, span, updated_courses, course, tmp, served>>
  /\ UNCHANGED <<pre, emitted, base, appended, increments>>

\* courses.append(data) in save_courses
courses_append(p) ==
  /\ At(p, "append")
  /\ courses' = [courses EXCEPT ![p] = ListAppend(@, course[p][1])]
  /\ Goto(p, I(p).next)
  /\ UNCHANGED <<shared, request, span, updated_courses, course, tmp, exc, result>>
  /\ UNCHANGED <<served, history>>

\* updated_courses = [course for course in courses if course['code'] != code]
filter_courses(p) ==
  /\ At(p, "filter")
  /\ updated_courses' = [updated_courses EXCEPT ![p] = FilterOut(courses[p], request[p].code)]
  /\ Goto(p, I(p).next)
  /\ UNCHANGED <<shared, request, span, courses, course, tmp, exc, result>>
  /\ UNCHANGED <<served, history>>

\* course = next((... if course['code'] == code), None)
find_course(p) ==
  /\ At(p, "find")
  /\ course' = [course EXCEPT ![p] = FirstMatch(courses[p], request[p].code)]
  /\ Goto(p, I(p).next)
  /\ UNCHANGED <<shared, request, span, courses, updated_courses, tmp, exc, result>>
  /\ UNCHANGED <<served, history>>

\* open(COURSE_FILE, 'w'): the file exists and is empty until the dump
open_for_write(p) ==
  /\ At(p, "open_w")
  /\ file' = Unparseable
  /\ Goto(p, I(p).next)
  /\ UNCHANGED <<requests_count, error_count, log, locals, served, history>>

\* json.dump(<list>, file, indent=4) and the close of the file
json_dump(p) ==
  /\ At(p, "dump")
  /\ file' = Json(IF I(p).src = "courses" THEN courses[p] ELSE updated_courses[p])
  /\ IF pc[p] \in StoreCallReturns
     THEN /\ store' = [store EXCEPT ![p] = "returned"]
          /\ appended' = Append(appended, course[p][1])
          /\ UNCHANGED base
     ELSE /\ base' = file'.courses
          /\ appended' = << >>
          /\ UNCHANGED store
  /\ Goto(p, I(p).next)
  /\ UNCHANGED <<requests_count, error_count, log, locals, served>>
  /\ UNCHANGED <<pre, snap, emitted, increments>>

\* if request.method == 'POST':
test_method(p) ==
  /\ At(p, "if_post")
  /\ Goto(p, IF request[p].method = "POST" THEN I(p).next ELSE I(p).else)
  /\ UNCHANGED <<shared, locals, served, history>>

\* course = {'code': request.form.get('code', '').strip(), ...}
parse_form(p) ==
  /\ At(p, "parse_form")
  /\ course' = [course EXCEPT ![p] = Some(CourseOfForm(request[p].form))]
  /\ Goto(p, I(p).next)
  /\ UNCHANGED <<shared, request, span, courses, updated_courses, tmp, exc, result>>
  /\ UNCHANGED <<served, history>>

\* if not course['code'] or not course['name'] or not course['instructor']:
test_missing(p) ==
  /\ At(p, "if_missing")
  /\ Goto(p, IF MissingRequired(course[p][1]) THEN I(p).next ELSE I(p).else)
  /\ UNCHANGED <<shared, locals, served, history>>

\* if not course:
test_not_found(p) ==
  /\ At(p, "if_not_found")
  /\ Goto(p, IF course[p] = None THEN I(p).next ELSE I(p).else)
  /\ UNCHANGED <<shared, locals, served, history>>

\* logger.info / logger.warning / logger.error: one line appended to app.log
logger_emit(p) ==
  /\ At(p, "log")
  /\ log' = Append(log, [level |-> I(p).level, event |-> I(p).event])
  /\ emitted' = [emitted EXCEPT ![p] = @ + 1]
  /\ Goto(p, I(p).next)
  /\ UNCHANGED <<file, requests_count, error_count, locals, served>>
  /\ UNCHANGED <<pre, snap, store, base, appended, increments>>

\* return <value>
return_value(p) ==
  /\ At(p, "return")
  /\ result' = [result EXCEPT ![p] = I(p).value]
  /\ Goto(p, I(p).next)
  /\ UNCHANGED <<shared, request, span, courses, updated_courses, course, tmp, exc>>
  /\ UNCHANGED <<served, history>>

\* the response (or the error) has gone to the client: the thread is free
Respond(p) ==
  /\ pc[p] = "done"
  /\ Goto(p, "idle")
  /\ request' = [request EXCEPT ![p] = NoRequest]
  /\ span' = [span EXCEPT ![p] = NoSpan]
  /\ courses' = [courses EXCEPT ![p] = << >>]
  /\ updated_courses' = [updated_courses EXCEPT ![p] = << >>]
  /\ course' = [course EXCEPT ![p] = None]
  /\ tmp' = [tmp EXCEPT ![p] = 0]
  /\ exc' = [exc EXCEPT ![p] = FALSE]
  /\ result' = [result EXCEPT ![p] = ""]
  /\ pre' = [pre EXCEPT ![p] = NoPre]
  /\ snap' = [snap EXCEPT ![p] = << >>]
  /\ emitted' = [emitted EXCEPT ![p] = 0]
  /\ store' = [store EXCEPT ![p] = "notcalled"]
  /\ UNCHANGED <<shared, served, base, appended, increments>>

Step(p) ==
  \/ counter_read(p)
  \/ counter_write(p)
  \/ start_as_current_span(p)
  \/ span_set(p)
  \/ span_exit(p)
  \/ load_courses(p)
  \/ courses_append(p)
  \/ filter_courses(p)
  \/ find_course(p)
  \/ open_for_write(p)
  \/ json_dump(p)
  \/ test_method(p)
  \/ parse_form(p)
  \/ test_missing(p)
  \/ test_not_found(p)
  \/ logger_emit(p)
  \/ return_value(p)
  \/ Respond(p)

\* requests arrive at any time and are handled on concurrent threads
Arrive ==
  /\ served < Cardinality(Threads)
  /\ \E p \in Threads, r \in Requests : Dispatch(p, r)

\* requests arrive one at a time: none while another is being handled
ArriveAlone ==
  /\ served < MaxSeqRequests
  /\ \A q \in Threads : pc[q] = "idle"
  /\ \E p \in Threads, r \in Requests : Dispatch(p, r)

Next == Arrive \/ \E p \in Threads : Step(p)

SeqNext == ArriveAlone \/ \E p \in Threads : Step(p)

Spec == Init /\ [][Next]_vars

SeqSpec == Init /\ [][SeqNext]_vars

\* ------------------------------------------------------------------ properties
\* labels control reaches when a load_courses() call has just returned
AfterLoad == {Code[l].next : l \in {m \in DOMAIN Code : Code[m].op = "load"}}

Last(s) == s[Len(s)]

\* t is s with exactly the records of code `code` taken out, order kept
IsRemovalOf(t, s, code) ==
  \E f \in [1..Len(t) -> 1..Len(s)] :
    /\ \A i, j \in 1..Len(t) : i < j => f[i] < f[j]
    /\ \A i \in 1..Len(t) : t[i] = s[f[i]]
    /\ {f[i] : i \in 1..Len(t)} = {k \in 1..Len(s) : s[k]["code"] # code}

\* the form field is absent or holds nothing but whitespace
BlankField(form, k) ==
  k \notin DOMAIN form \/ \A i \in 1..Len(form[k]) : form[k][i] = SP

\* C1: with requests handled one at a time, whatever load_courses() returns
\* is the collection stored at start-up (or left by the last delete; empty
\* when the file was absent) followed by exactly the records whose
\* save_courses() has returned since, each once, in the order of the calls.
C1_LoadReturnsAppendsInOrder ==
  \A p \in Threads : pc[p] \in AfterLoad => courses[p] = base \o appended

\* C1 witness: the catalog handler has loaded a collection that was not
\* empty at start-up and to which two different records were appended.
C1_Witness ==
  \E p \in Threads :
    /\ pc[p] = "L74"
    /\ base # << >>
    /\ Len(appended) = 2
    /\ appended[1] # appended[2]
    /\ courses[p] = base \o appended

\* C2: with requests handled one at a time, a delete_course(c) that has
\* returned leaves the file holding exactly the records stored before whose
\* code differs from c, in their order and unchanged; nothing changes when
\* no record has code c, and the handler returns its redirect all the same.
C2_DeleteRemovesExactlyCode ==
  \A p \in Threads :
    (pc[p] = "done" /\ request[p].route = "/delete_course" /\ ~exc[p]) =>
      /\ file.st = "json"
      /\ IsRemovalOf(file.courses, pre[p].file.courses, request[p].code)
      /\ \A i \in 1..Len(file.courses) : file.courses[i]["code"] # request[p].code
      /\ (\A i \in 1..Len(pre[p].file.courses) :
            pre[p].file.courses[i]["code"] # request[p].code)
         => file.courses = pre[p].file.courses
      /\ result[p] = "redirect course_catalog"

\* C2 witness: a delete has returned that took two records of its code out
\* of a collection of three and left the third.
C2_Witness ==
  \E p \in Threads :
    /\ pc[p] = "done" /\ request[p].route = "/delete_course" /\ ~exc[p]
    /\ Len(pre[p].file.courses) = 3
    /\ Len(file.courses) = 1

\* C3 as stated: a lookup of code c that follows (one request at a time, no
\* delete in between) the append of a course with code c returns that course.
C3_FindReturnsAppended ==
  \A p \in Threads :
    (pc[p] = "L167" /\ appended # << >> /\ Last(appended)["code"] = request[p].code)
      => course[p] = Some(Last(appended))

\* C3 amended: such a lookup returns the first stored record with code c:
\* the appended course when no record stored before it has code c, otherwise
\* the earliest stored record with that code.
C3_FindReturnsFirstStored ==
  \A p \in Threads :
    (pc[p] = "L167" /\ appended # << >> /\ Last(appended)["code"] = request[p].code)
      => LET all == base \o appended
             hits == {i \in 1..Len(all) : all[i]["code"] = request[p].code}
             first == CHOOSE i \in hits : \A j \in hits : i <= j
         IN /\ course[p] = Some(all[first])
            /\ first = Len(all) => course[p] = Some(Last(appended))

\* C3 witness: the lookup follows the append of a course whose code an
\* earlier, different record already had, and returned the earlier record.
C3_Witness ==
  \E p \in Threads :
    /\ pc[p] = "L167" /\ appended # << >>
    /\ Last(appended)["code"] = request[p].code
    /\ base # << >> /\ course[p] = Some(base[1])
    /\ base[1] # Last(appended)

\* C4 as stated: every handler, on every way out, has written exactly one
\* log record and has opened and closed exactly one span.
C4_OneLogOneClosedSpan ==
  \A p \in Threads : pc[p] = "done" => emitted[p] = 1 /\ span[p].state = "closed"

\* C5 as stated: no `+= 1` on a counter is lost: whenever no thread is in
\* the middle of one, the counter equals the number of completed increments.
C5_NoLostIncrement ==
  \A r \in Registries, k \in CounterKeys :
    (\A p \in Threads : ~(At(p, "ctr_write") /\ I(p).reg = r /\ I(p).key = k))
      => (IF r = "requests" THEN requests_count[k] ELSE error_count[k]) = increments[r][k]

\* C6: with requests handled one at a time, a POST to /add_course whose
\* code, name or instructor is absent or blank leaves the file as it was,
\* adds exactly 1 to error_count['add_course'] and writes one log record,
\* at WARNING level.
C6_ValidationFailure ==
  \A p \in Threads :
    (/\ pc[p] = "done"
     /\ request[p].route = "/add_course" /\ request[p].method = "POST"
     /\ \E k \in {"code", "name", "instructor"} : BlankField(request[p].form, k))
    => /\ file = pre[p].file
       /\ error_count["add_course"] = pre[p].errors["add_course"] + 1
       /\ emitted[p] = 1
       /\ Len(log) = pre[p].loglen + 1
       /\ Last(log).level = "WARNING"
       /\ result[p] = "render add_course.html"

\* C6 witness: such a POST (blank instructor, the other two given) has
\* returned while the file held a collection.
C6_Witness ==
  \E p \in Threads :
    /\ pc[p] = "done"
    /\ request[p].route = "/add_course" /\ request[p].method = "POST"
    /\ BlankField(request[p].form, "instructor")
    /\ ~BlankField(request[p].form, "code") /\ ~BlankField(request[p].form, "name")
    /\ file.st = "json" /\ file.courses # << >>
    /\ error_count["add_course"] = 1

\* C7 as stated: a handler out of which load_courses() raised has, when the
\* error reaches its caller, recorded a span event and written a log record.
C7_StorageErrorLoggedAndTraced ==
  \A p \in Threads :
    (pc[p] = "done" /\ exc[p]) =>
      /\ emitted[p] >= 1
      /\ \E i \in 1..Len(span[p].events) : span[p].events[i] = "exception"

\* C8 as stated: every span a handler has closed carries processing_time.
C8_ElapsedTimeOnEverySpan ==
  \A p \in Threads : span[p].state = "closed" => "processing_time" \in span[p].attrs

\* C9: a handler writes its log record after its store call has returned
\* and while its span is open: a record is never written during or after a
\* failed store call, no store call starts once the record is written, and
\* the span is open before and after the write.
C9_LogAfterStoreBeforeClose ==
  [][\A p \in Threads :
       /\ emitted'[p] > emitted[p] =>
            /\ store[p] \in {"returned", "notcalled"}
            /\ span[p].state = "open" /\ span'[p].state = "open"
       /\ (store[p] = "notcalled" /\ store'[p] # "notcalled") => emitted[p] = 0]_vars

\* C9 witness: a handler whose store call has returned has written its log
\* record and its span is still open.
C9_Witness ==
  \E p \in Threads : emitted[p] = 1 /\ store[p] = "returned" /\ span[p].state = "open"

\* C10: save_courses writes back what its own load returned plus its own
\* record, and delete_course what its own load returned less the records of
\* its code, whatever other threads wrote in between.
C10_WritesBackOwnSnapshot ==
  [][\A p \in Threads :
       /\ (pc[p] = "L51" /\ pc'[p] # "L51") =>
            file' = Json(Append(snap[p], course[p][1]))
       /\ (pc[p] = "L148" /\ pc'[p] # "L148") =>
            /\ file'.st = "json"
            /\ IsRemovalOf(file'.courses, snap[p], request[p].code)]_vars

\* C10 witness (lost update): two POSTs to /add_course with different
\* courses have both returned their success redirect, and the file holds
\* one of the two courses only.
C10_Witness ==
  /\ \A p \in Threads :
       /\ pc[p] = "done" /\ request[p].route = "/add_course"
       /\ result[p] = "redirect course_catalog"
  /\ course[1] # course[2]
  /\ file.st = "json"
  /\ \E p \in Threads :
       /\ \A i \in 1..Len(file.courses) : file.courses[i] # course[p][1]
       /\ \E q \in Threads : \E i \in 1..Len(file.courses) : file.courses[i] = course[q][1]

\* C10, the same window against delete_course: an add and a delete of
\* another code have both returned, and the file lacks the added course.
C10_WitnessDelete ==
  \E p, q \in Threads :
    /\ pc[p] = "done" /\ request[p].route = "/add_course"
    /\ result[p] = "redirect course_catalog"
    /\ pc[q] = "done" /\ request[q].route = "/delete_course" /\ ~exc[q]
    /\ request[q].code # course[p][1]["code"]
    /\ file.st = "json"
    /\ \A i \in 1..Len(file.courses) : file.courses[i] # course[p][1]

====
